---- MODULE Spec2Model ----
(***************************************************************************)
(* A model of braillegl: the Canvas (pixel buffer, depth buffer, set,      *)
(* fill_triangle, draw_entity, clear, to_s), the Shape constructors and    *)
(* the Entity pose.                                                        *)
(*                                                                         *)
(* Numbers.  i32 values are integers; the two places where the width of    *)
(* i32 decides the outcome (fill_triangle's `y2 - y0 + 1` and `y2 + 1`)    *)
(* test for overflow explicitly.  f32 depths are the finite, ordered f32   *)
(* values, written as integers with F32_MIN the least of them; NaN and     *)
(* the infinities are not depth inputs of this model; the unit of a depth  *)
(* is a millionth, the precision kept of a projected z.  Vertex positions  *)
(* are integer valued, so cross and dot products are exact; a division     *)
(* followed by `as i32` is a truncating integer division.                  *)
(***************************************************************************)
EXTENDS Integers, Sequences, FiniteSets, TLC

VARIABLES
    width,          \* Canvas.width
    height,         \* Canvas.height
    pixels,         \* Canvas.pixels: Vec<Option<Color>>, indexed from 0
    depth_buffer,   \* Canvas.depth_buffer: Vec<f32>, indexed from 0
    fault,          \* TRUE once an operation has panicked
    ops,            \* number of draw calls (set, fill_triangle, draw_entity) since the last clear
    last,           \* the last operation and its arguments
    out,            \* the glyph stream of the last to_s, <<>> if stale
    shape,          \* Entity.shape: [va, triangles, built]
    entity,         \* the Entity's pose
    window          \* Window::run: its position in the frame loop and its locals

vars == <<width, height, pixels, depth_buffer, fault, ops, last, out, shape, entity, window>>

(***************************************************************************)
(* Bounds                                                                  *)
(***************************************************************************)
TermCols == 2       \* terminal_size(): columns
TermRows == 1       \* terminal_size(): rows
MaxOps == 2         \* draw calls per frame
XMargin == 2        \* fill_triangle takes x from -XMargin..width
MaxDepth == 1       \* depths written are F32_MIN and 0..MaxDepth
MaxMoves == 3       \* pose mutations of the entity
MaxFrames == 3      \* iterations of the frame loop
MaxTex == 2         \* a texture has 1..MaxTex columns and rows
TexDen == 2         \* texture coordinates are the multiples of 1/TexDen in -1..2

(***************************************************************************)
(* Values                                                                  *)
(***************************************************************************)
F32_MIN == -2147483647
I32_MAX == 2147483647
None == <<>>    \* Option::None; Some(c) is the colour c

WHITE == <<255, 255, 255>>
BLACK == <<0, 0, 0>>
RED == <<255, 0, 0>>

Palette == {WHITE, RED}
Depths == {F32_MIN} \cup 0..MaxDepth

\* a / b as Rust's `as i32` of the real quotient: truncation toward zero
TruncDiv(a, b) ==
    LET n == IF b < 0 THEN -a ELSE a
        d == IF b < 0 THEN -b ELSE b
    IN  IF n >= 0 THEN n \div d ELSE -((-n) \div d)

\* i32::abs and f32::abs
Abs(n) == IF n < 0 THEN -n ELSE n

\* the sign of n: `dx / dx.abs()` of draw_line, and a component of an axis
\* vector divided by the vector's length
Sgn(n) == IF n > 0 THEN 1 ELSE IF n < 0 THEN -1 ELSE 0

(***************************************************************************)
(* Canvas                                                                  *)
(***************************************************************************)
\* The canvas as one value, so that operations compose.
Canvas ==
    [width |-> width, height |-> height, pixels |-> pixels,
     depth_buffer |-> depth_buffer, fault |-> fault]

Cells(cv) == 0..(cv.width * cv.height - 1)

\* Canvas::new
new ==
    LET w == TermCols * 2
        h == TermRows * 4
    IN  [width |-> w, height |-> h,
         pixels |-> [i \in 0..(w * h - 1) |-> None],
         depth_buffer |-> [i \in 0..(w * h - 1) |-> F32_MIN],
         fault |-> FALSE]

InBounds(cv, x, y) == x >= 0 /\ x < cv.width /\ y >= 0 /\ y < cv.height

Index(cv, x, y) == y * cv.width + x

\* a plausible fault of set: the depth test lets only strictly nearer writes through
set_strict(cv, x, y, color, depth) ==
    IF ~InBounds(cv, x, y) THEN cv
    ELSE IF cv.depth_buffer[Index(cv, x, y)] >= depth THEN cv
    ELSE [cv EXCEPT !.pixels[Index(cv, x, y)] = color,
                    !.depth_buffer[Index(cv, x, y)] = depth]

\* a plausible fault of set: only the linear index is range checked
set_flat(cv, x, y, color, depth) ==
    LET index == Index(cv, x, y)
    IN  IF ~(index \in Cells(cv)) THEN cv
        ELSE IF cv.depth_buffer[index] > depth THEN cv
        ELSE [cv EXCEPT !.pixels[index] = color,
                        !.depth_buffer[index] = depth]

\* a plausible fault of set: an occupied cell is blended with the new colour
set_blend(cv, x, y, color, depth) ==
    IF ~InBounds(cv, x, y) THEN cv
    ELSE IF cv.depth_buffer[Index(cv, x, y)] > depth THEN cv
    ELSE LET old == cv.pixels[Index(cv, x, y)]
             mix == IF old = None THEN color
                    ELSE [k \in 1..3 |-> (old[k] + color[k]) % 256]
         IN  [cv EXCEPT !.pixels[Index(cv, x, y)] = mix,
                        !.depth_buffer[Index(cv, x, y)] = depth]

\* a plausible fault of set: the colour is written, the depth is not stored
set_no_depth_store(cv, x, y, color, depth) ==
    IF ~InBounds(cv, x, y) THEN cv
    ELSE IF cv.depth_buffer[Index(cv, x, y)] > depth THEN cv
    ELSE [cv EXCEPT !.pixels[Index(cv, x, y)] = color]

\* a plausible fault of set: the depth test is left out, the last write wins
set_untested(cv, x, y, color, depth) ==
    IF ~InBounds(cv, x, y) THEN cv
    ELSE [cv EXCEPT !.pixels[Index(cv, x, y)] = color,
                    !.depth_buffer[Index(cv, x, y)] = depth]

\* Canvas::set
set(cv, x, y, color, depth) ==
    IF ~InBounds(cv, x, y) THEN cv
    ELSE IF cv.depth_buffer[Index(cv, x, y)] > depth THEN cv
    ELSE [cv EXCEPT !.pixels[Index(cv, x, y)] = color,
                    !.depth_buffer[Index(cv, x, y)] = depth]

\* a plausible fault of clear: the depth buffer is left as it was
clear_pixels_only(cv) ==
    [cv EXCEPT !.pixels = [i \in 0..(cv.width * cv.height - 1) |-> None]]

\* a plausible fault of the frame loop: the buffers are left as they were
clear_skipped(cv) == cv

\* Canvas::clear
clear(cv) ==
    [cv EXCEPT !.pixels = [i \in 0..(cv.width * cv.height - 1) |-> None],
               !.depth_buffer = [i \in 0..(cv.width * cv.height - 1) |-> F32_MIN]]

\* the cell of step k of draw_line.  Along the major axis the coordinate moves by
\* the sign of its difference; along the minor axis `current += d / steps` starts
\* at c0 + 0.5 and `as i32` truncates it: after k steps it is the truncated
\* quotient ((2*c0 + 1)*steps + 2*k*d) / (2*steps).  For lines of up to five
\* steps the f32 sums are exact or away from the integers.
LineCell(x0, y0, dx, dy, steps, k) ==
    IF Abs(dx) > Abs(dy)
    THEN <<x0 + k * Sgn(dx), TruncDiv((2 * y0 + 1) * steps + 2 * k * dy, 2 * steps)>>
    ELSE <<TruncDiv((2 * x0 + 1) * steps + 2 * k * dx, 2 * steps), y0 + k * Sgn(dy)>>

\* `for _ in 0..steps { ...; self.set(current_x, current_y, color, depth) }`
RECURSIVE LineSteps(_, _, _, _, _, _, _, _, _)
LineSteps(cv, x0, y0, dx, dy, steps, k, color, depth) ==
    IF k > steps THEN cv
    ELSE LET c == LineCell(x0, y0, dx, dy, steps, k)
             next == set(cv, c[1], c[2], color, depth)
         IN  IF next.fault THEN next
             ELSE LineSteps(next, x0, y0, dx, dy, steps, k + 1, color, depth)

\* Canvas::draw_line
draw_line(cv, x0, y0, x1, y1, color, depth) ==
    LET dx == x1 - x0
        dy == y1 - y0
        steps == IF Abs(dx) > Abs(dy) THEN Abs(dx) ELSE Abs(dy)
        first == set(cv, x0, y0, color, depth)
    IN  IF steps = 0 THEN first
        ELSE LineSteps(first, x0, y0, dx, dy, steps, 1, color, depth)

(***************************************************************************)
(* Canvas::fill_triangle                                                   *)
(***************************************************************************)
I32_MIN == -I32_MAX - 1

\* whether a + b, a - b leave the range of i32
AddOverflows(a, b) == IF b >= 0 THEN a > I32_MAX - b ELSE a < I32_MIN - b
SubOverflows(a, b) == IF b >= 0 THEN a < I32_MIN + b ELSE a > I32_MAX + b

\* plerp, nested in fill_triangle: the value at x of the line through (x0, y0)
\* and (x1, y1); `(y0 + y_step * (x - x0) + 0.5) as i32` is the truncated quotient
\* (2*y0*dx + 2*dy*(x - x0) + dx) / (2*dx)
plerp(x0, y0, x1, y1, x) ==
    LET dx == x1 - x0
        dy == y1 - y0
    IN  IF x = x0 \/ dy = 0 THEN y0
        ELSE IF x = x1 THEN y1
        ELSE TruncDiv(2 * y0 * dx + 2 * dy * (x - x0) + dx, 2 * dx)

\* the three conditional swaps that sort the points by y; the result is
\* <<x0, y0, x1, y1, x2, y2>>
SortByY(x0, y0, x1, y1, x2, y2) ==
    LET a == IF y0 < y1 THEN <<x0, y0, x1, y1>> ELSE <<x1, y1, x0, y0>>
        b == IF a[2] < y2 THEN <<a[1], a[2], x2, y2>> ELSE <<x2, y2, a[1], a[2]>>
        c == IF a[4] < b[4] THEN <<a[3], a[4], b[3], b[4]>> ELSE <<b[3], b[4], a[3], a[4]>>
    IN  <<b[1], b[2], c[1], c[2], c[3], c[4]>>

\* x012[i] and x02[i] for the sorted points p, i = y - y0
X012(p, i) ==
    IF p[2] + i < p[4] THEN plerp(p[2], p[1], p[4], p[3], p[2] + i)
    ELSE plerp(p[4], p[3], p[6], p[5], p[2] + i)

X02(p, i) == plerp(p[2], p[1], p[6], p[5], p[2] + i)

\* m = x02.len() / 2 and the choice of (x_left, x_right)
MidIndex(p) == (p[6] - p[2] + 1) \div 2

X02IsLeft(p) == X02(p, MidIndex(p)) < X012(p, MidIndex(p))

XLeft(p, i) == IF X02IsLeft(p) THEN X02(p, i) ELSE X012(p, i)

XRight(p, i) == IF X02IsLeft(p) THEN X012(p, i) ELSE X02(p, i)

\* `for x in x..xr + 1 { self.set(x, y, color, depth) }`.  A canvas that is passed
\* on has been evaluated: that is all the test of its fault flag, which set
\* leaves alone, is for
RECURSIVE FillSpan(_, _, _, _, _, _)
FillSpan(cv, x, xr, y, color, depth) ==
    IF x > xr THEN cv
    ELSE LET next == set(cv, x, y, color, depth)
         IN  IF next.fault THEN next
             ELSE FillSpan(next, x + 1, xr, y, color, depth)

\* `for y in y0 + i..y2 + 1 { the span of scanline y }`
RECURSIVE FillLines(_, _, _, _, _)
FillLines(cv, p, i, color, depth) ==
    IF p[2] + i > p[6] THEN cv
    ELSE LET next == FillSpan(cv, XLeft(p, i), XRight(p, i), p[2] + i, color, depth)
         IN  IF next.fault THEN next
             ELSE FillLines(next, p, i + 1, color, depth)

\* "Fill in end points"
FillEndPoints(cv, x0, y0, x1, y1, x2, y2, color, depth) ==
    set(set(set(cv, x0, y0, color, depth), x1, y1, color, depth), x2, y2, color, depth)

\* a plausible fault of fill_triangle: the end points are left to the scanlines
fill_triangle_no_end_points(cv, x0, y0, x1, y1, x2, y2, color, depth) ==
    LET p == SortByY(x0, y0, x1, y1, x2, y2)
    IN  IF SubOverflows(p[6], p[2]) \/ AddOverflows(p[6] - p[2], 1) \/ AddOverflows(p[6], 1)
        THEN [cv EXCEPT !.fault = TRUE]
        ELSE FillLines(cv, p, 0, color, depth)

\* Canvas::fill_triangle.  `y2 - y0 + 1` and `y2 + 1` are i32 arithmetic: when one
\* overflows, a build with overflow checks panics there, and a build without
\* them goes on with the wrapped value, which is a negative length handed to
\* Vec::with_capacity (capacity overflow) or an empty range `y0..y2 + 1`, after
\* which x02 is empty and x02[m] is out of range.  Every build faults.
fill_triangle(cv, x0, y0, x1, y1, x2, y2, color, depth) ==
    LET ends == FillEndPoints(cv, x0, y0, x1, y1, x2, y2, color, depth)
        p == SortByY(x0, y0, x1, y1, x2, y2)
    IN  IF SubOverflows(p[6], p[2]) \/ AddOverflows(p[6] - p[2], 1) \/ AddOverflows(p[6], 1)
        THEN [ends EXCEPT !.fault = TRUE]
        ELSE FillLines(ends, p, 0, color, depth)

(***************************************************************************)
(* Color                                                                   *)
(***************************************************************************)
\* Color::is_not_black
is_not_black(c) == ~(c[1] = 0 /\ c[2] = 0 /\ c[3] = 0)

\* An f32 factor is [num |-> a, den2 |-> s]: a / sqrt(s) when s > 0, NaN when s = 0
NaN == [num |-> 0, den2 |-> 0]
Factor(a, s) == [num |-> a, den2 |-> s]

\* `if rhs < 0.0 { 0.0 } else if rhs > 1.0 { 1.0 } else { rhs }`; NaN passes
ClampFactor(rhs) ==
    IF rhs = NaN THEN NaN
    ELSE IF rhs.num < 0 THEN Factor(0, 1)
    ELSE IF rhs.num * rhs.num > rhs.den2 THEN Factor(1, 1)
    ELSE rhs

\* the integer square root of n < 2^16, bit by bit from b down
RECURSIVE SqrtBits(_, _, _)
SqrtBits(n, r, b) ==
    IF b = 0 THEN r
    ELSE SqrtBits(n, IF (r + b) * (r + b) <= n THEN r + b ELSE r, b \div 2)

ISqrt(n) == SqrtBits(n, 0, 128)

\* `(ch as f32 * rhs) as u8` for a clamped rhs: the floor of ch * a / sqrt(s),
\* which is the integer square root of the floor of (ch * a)^2 / s; NaN as u8 is 0
ScaleChannel(ch, rhs) ==
    IF rhs = NaN THEN 0
    ELSE ISqrt(((ch * rhs.num) * (ch * rhs.num)) \div rhs.den2)

\* a plausible fault of Mul: the minimum non-zero colour is not applied
ColorMulNoFloor(c, rhs) ==
    LET k == ClampFactor(rhs)
    IN  <<ScaleChannel(c[1], k), ScaleChannel(c[2], k), ScaleChannel(c[3], k)>>

\* impl Mul<f32> for Color
ColorMul(c, rhs) ==
    LET k == ClampFactor(rhs)
        new_color == <<ScaleChannel(c[1], k), ScaleChannel(c[2], k), ScaleChannel(c[3], k)>>
    IN  IF is_not_black(c) /\ ~is_not_black(new_color) THEN <<1, 1, 1>>
        ELSE new_color

\* impl AddAssign for Color: u8 additions; ovf records that one overflowed
ColorAdd(acc, rhs) ==
    [color |-> <<(acc.color[1] + rhs[1]) % 256,
                 (acc.color[2] + rhs[2]) % 256,
                 (acc.color[3] + rhs[3]) % 256>>,
     ovf |-> acc.ovf \/ \E k \in 1..3 : acc.color[k] + rhs[k] > 255]

\* a plausible fault of to_s: a sub-cell contributes a fourth of its colour
FOURTH == Factor(1, 16)

\* 1.0 / 8.0, the share of a sub-cell in to_s
EIGHTH == Factor(1, 64)

(***************************************************************************)
(* Canvas::to_s                                                            *)
(***************************************************************************)
BRAILLE_BASE == 10240      \* 0x2800

INDEX_OFFSETS ==
    << <<0, 0>>, <<0, 1>>, <<0, 2>>,
       <<1, 0>>, <<1, 1>>, <<1, 2>>,
       <<0, 3>>, <<1, 3>> >>

Pow2(n) == IF n = 0 THEN 1 ELSE IF n = 1 THEN 2 ELSE IF n = 2 THEN 4
           ELSE IF n = 3 THEN 8 ELSE IF n = 4 THEN 16 ELSE IF n = 5 THEN 32
           ELSE IF n = 6 THEN 64 ELSE 128

\* a plausible fault of to_s: the offsets are read as (dy, dx)
SubIndexSwapped(cv, row, col, i) ==
    (row * 4 + INDEX_OFFSETS[i + 1][1]) * cv.width + col * 2 + INDEX_OFFSETS[i + 1][2]

\* the buffer index of sub-cell i (0..7) of the block at (row, col)
SubIndex(cv, row, col, i) ==
    (row * 4 + INDEX_OFFSETS[i + 1][2]) * cv.width + col * 2 + INDEX_OFFSETS[i + 1][1]

\* the inner loop of to_s over INDEX_OFFSETS[0..n): braille_code and cel_color
RECURSIVE BlockFold(_, _, _, _)
BlockFold(cv, row, col, n) ==
    IF n = 0 THEN [code |-> BRAILLE_BASE, cel |-> [color |-> BLACK, ovf |-> FALSE]]
    ELSE LET acc == BlockFold(cv, row, col, n - 1)
             p_color == cv.pixels[SubIndex(cv, row, col, n - 1)]
         IN  IF p_color # None
             THEN [code |-> acc.code + Pow2(n - 1),
                   cel |-> ColorAdd(acc.cel, ColorMul(p_color, EIGHTH))]
             ELSE acc

\* what one block appends to the string
BlockText(cv, row, col) ==
    LET b == BlockFold(cv, row, col, 8)
    IN  IF b.code # BRAILLE_BASE
        THEN << <<"goto", col + 1, row + 1>>,
                <<"fg", b.cel.color[1], b.cel.color[2], b.cel.color[3]>>,
                <<"glyph", b.code>> >>
        ELSE <<>>

\* the string after the first n blocks, in row-major order
RECURSIVE BlocksText(_, _)
BlocksText(cv, n) ==
    IF n = 0 THEN << <<"clear">> >>
    ELSE LET ncols == cv.width \div 2
             row == (n - 1) \div ncols
             col == (n - 1) % ncols
         IN  BlocksText(cv, n - 1) \o BlockText(cv, row, col)

NBlocks(cv) == (cv.height \div 4) * (cv.width \div 2)

to_s(cv) == BlocksText(cv, NBlocks(cv))

\* whether a u8 addition of to_s overflows
to_s_overflows(cv) ==
    \E n \in 1..NBlocks(cv) :
        BlockFold(cv, (n - 1) \div (cv.width \div 2), (n - 1) % (cv.width \div 2), 8).cel.ovf

(***************************************************************************)
(* Vec3f, on integer valued vectors <<x, y, z>>                            *)
(***************************************************************************)
VSub(a, b) == <<a[1] - b[1], a[2] - b[2], a[3] - b[3]>>

cross(a, b) ==
    <<a[2] * b[3] - a[3] * b[2],
      a[3] * b[1] - a[1] * b[3],
      a[1] * b[2] - a[2] * b[1]>>

dot(a, b) == a[1] * b[1] + a[2] * b[2] + a[3] * b[3]

RECURSIVE Gcd(_, _)
Gcd(a, b) == IF b = 0 THEN a ELSE Gcd(b, a % b)

\* v divided by the gcd of its components: the direction of v in least terms.
\* normalize(v) is this vector over its length, NaN in each component when v = 0.
Reduced(v) ==
    LET g == Gcd(Gcd(Abs(v[1]), Abs(v[2])), Abs(v[3]))
    IN  IF g = 0 THEN v ELSE <<v[1] \div g, v[2] \div g, v[3] \div g>>

(***************************************************************************)
(* Vertex, VertexArray, Shape                                              *)
(***************************************************************************)
NoTexcoord == <<>>
Normal == "normal"      \* a normal vector; no modelled operation reads its value

\* Vertex::new and Vertex::with_pos_normal
Vertex(position, normal, texcoord) ==
    [position |-> position, normal |-> normal, texcoord |-> texcoord]

Min(a, b) == IF a < b THEN a ELSE b

\* the result of a constructor: a shape, or the fault it raised
Built(va, triangles) == [va |-> va, triangles |-> triangles, built |-> TRUE]
BuildFault == [va |-> <<>>, triangles |-> <<>>, built |-> FALSE]
NoShape == BuildFault

\* Shape::gen_normals: positions[i] for every index of every triangle, so it
\* panics on an index >= positions.len(); otherwise one normal per position
gen_normals_faults(positions, triangles) ==
    \E t \in 1..Len(triangles) : \E k \in 1..3 : triangles[t][k] >= Len(positions)

gen_normals(positions, triangles) == [k \in 1..Len(positions) |-> Normal]

\* Shape::new: the three lists are zipped, so the shortest decides the length
Shape_new(positions, normals, texcoords, triangles) ==
    LET n == Min(Len(positions), Min(Len(normals), Len(texcoords)))
    IN  Built([k \in 1..n |-> Vertex(positions[k], normals[k], texcoords[k])], triangles)

\* Shape::with_normals
with_normals(positions, normals, triangles) ==
    LET n == Min(Len(positions), Len(normals))
    IN  Built([k \in 1..n |-> Vertex(positions[k], normals[k], NoTexcoord)], triangles)

\* Shape::with_tris
with_tris(positions, triangles) ==
    IF gen_normals_faults(positions, triangles) THEN BuildFault
    ELSE with_normals(positions, gen_normals(positions, triangles), triangles)

\* Shape::with_texcoords
with_texcoords(positions, triangles, texcoords) ==
    IF gen_normals_faults(positions, triangles) THEN BuildFault
    ELSE Shape_new(positions, gen_normals(positions, triangles), texcoords, triangles)

(***************************************************************************)
(* shapes::load_from_file.  A file is a sequence of lines:                 *)
(*   [k |-> "v", p |-> <<x, y, z>>], [k |-> "vt", t |-> <<u, v>>],         *)
(*   [k |-> "f", refs |-> <<ref, ...>>], a ref being <<v>> or <<v, vt>>,   *)
(* the integers of `v` or `v/vt`.  Index 0 is not an input of this model.  *)
(***************************************************************************)
\* what `n as usize` is for a negative n: a value above every length
HUGE == I32_MAX

AsUsize(n) == IF n >= 0 THEN n ELSE HUGE

\* a plausible fault of the resolution: the 1-based value is used as it stands
ResolveIndexOneBased(val, len) == IF val >= 0 THEN val ELSE AsUsize(len + val)

\* the index a face value resolves to; len is positions.len() (i = 0) or
\* texcoord_vecs.len() (i = 1)
ResolveIndex(val, len) == IF val >= 0 THEN val - 1 ELSE AsUsize(len + val)

ParseStart == [positions |-> <<>>, texcoord_vecs |-> <<>>, texcoords |-> <<>>,
               triangles |-> <<>>, fault |-> FALSE]

\* the closure over the first n refs of a face: tri and texcoords grow
RECURSIVE ParseRefs(_, _, _)
ParseRefs(st, refs, n) ==
    IF n = 0 THEN [tri |-> <<>>, texcoords |-> st.texcoords, fault |-> FALSE]
    ELSE LET acc == ParseRefs(st, refs, n - 1)
             ref == refs[n]
             vi == ResolveIndex(ref[1], Len(st.positions))
             ti == ResolveIndex(ref[2], Len(st.texcoord_vecs))
         IN  IF acc.fault THEN acc
             ELSE IF Len(ref) = 1
             THEN [acc EXCEPT !.tri = Append(@, vi)]
             ELSE IF ti >= Len(st.texcoord_vecs)
             THEN [acc EXCEPT !.tri = Append(@, vi), !.fault = TRUE]
             ELSE [acc EXCEPT !.tri = Append(@, vi),
                              !.texcoords = Append(@, st.texcoord_vecs[ti + 1])]

\* the fan `for (i1, i2) in tri[1..].iter().zip(&tri[2..])`
Fan(tri) == [k \in 1..(Len(tri) - 2) |-> <<tri[1], tri[k + 1], tri[k + 2]>>]

\* one line of the file
ParseLine(st, line) ==
    IF line.k = "v" THEN [st EXCEPT !.positions = Append(@, line.p)]
    ELSE IF line.k = "vt" THEN [st EXCEPT !.texcoord_vecs = Append(@, line.t)]
    ELSE LET r == ParseRefs(st, line.refs, Len(line.refs))
         IN  IF r.fault \/ Len(r.tri) < 2
             THEN [st EXCEPT !.texcoords = r.texcoords, !.fault = TRUE]
             ELSE [st EXCEPT !.texcoords = r.texcoords,
                             !.triangles = @ \o Fan(r.tri)]

RECURSIVE ParseLines(_, _)
ParseLines(lines, n) ==
    IF n = 0 THEN ParseStart
    ELSE LET st == ParseLines(lines, n - 1)
         IN  IF st.fault THEN st ELSE ParseLine(st, lines[n])

load_from_file(lines) ==
    LET st == ParseLines(lines, Len(lines))
    IN  IF st.fault THEN BuildFault
        ELSE IF gen_normals_faults(st.positions, st.triangles) THEN BuildFault
        ELSE IF st.texcoords = <<>>
        THEN with_normals(st.positions, gen_normals(st.positions, st.triangles), st.triangles)
        ELSE Shape_new(st.positions, gen_normals(st.positions, st.triangles),
                       st.texcoords, st.triangles)

\* Shape::get faults on an index >= the number of vertices
get_faults(sh, index) == index >= Len(sh.va)

get(sh, index) == sh.va[index + 1]

(***************************************************************************)
(* Texture.  A coordinate u is the rational u / TexDen.                    *)
(***************************************************************************)
\* Texture::new over data whose cell i holds the colour (i, i, i)
Texture(w, h) == [data |-> [i \in 0..(w * h - 1) |-> <<i, i, i>>], width |-> w, height |-> h]

\* `(n / d) as usize` for d > 0: the floor of a quotient that is not negative,
\* and 0 (the cast saturates) of one that is
FloorAsUsize(n, d) == IF n < 0 THEN 0 ELSE n \div d

\* Texture::sample: x, y, the index read, whether the read is out of range
\* (a panic), and the colour read
sample(tex, u, v) ==
    LET x == FloorAsUsize(u * (tex.width - 1), TexDen)
        y == FloorAsUsize(v * (tex.height - 1), TexDen)
        index == y * tex.width + x
        bad == index >= tex.width * tex.height
    IN  [x |-> x, y |-> y, index |-> index, fault |-> bad,
         color |-> IF bad THEN BLACK ELSE tex.data[index]]

(***************************************************************************)
(* Entity.  A direction is a unit vector along an axis, so theta and phi   *)
(* are whole quarter turns.                                                *)
(***************************************************************************)
\* Entity::with_geometry, then set_translation as Window::run calls it
with_geometry == [translation |-> <<0, 0, 0>>, direction |-> <<0, 0, 1>>, scale |-> 1,
                  texture |-> None]

set_translation(e, x, y, z) == [e EXCEPT !.translation = <<x, y, z>>]

\* Mat4x4f::identity() * scale: the scale on the diagonal of the upper 3x3 block
MatScale(k) ==
    << <<k, 0, 0, 0>>,
       <<0, k, 0, 0>>,
       <<0, 0, k, 0>>,
       <<0, 0, 0, 1>> >>

\* Angles are whole quarter turns: q stands for q * PI / 2, whose sine and cosine
\* are taken as the exact 0, 1 and -1
QSin(q) == CASE q % 4 = 0 -> 0 [] q % 4 = 1 -> 1 [] q % 4 = 2 -> 0 [] q % 4 = 3 -> -1

QCos(q) == QSin(q + 1)

\* acos and asin of a component of an axis vector, in quarter turns
QAcos(z) == CASE z = 1 -> 0 [] z = 0 -> 1 [] z = -1 -> 2

QAsin(y) == y

\* Mat4x4f::rotate_y
rotate_y(theta) ==
    << <<QCos(theta), 0, QSin(theta), 0>>,
       <<0, 1, 0, 0>>,
       <<-QSin(theta), 0, QCos(theta), 0>>,
       <<0, 0, 0, 1>> >>

\* Mat4x4f::rotate_x: the standard right-handed rotation about x
rotate_x(phi) ==
    << <<1, 0, 0, 0>>,
       <<0, QCos(phi), -QSin(phi), 0>>,
       <<0, QSin(phi), QCos(phi), 0>>,
       <<0, 0, 0, 1>> >>

\* Mat4x4f::matmul
matmul(a, b) ==
    [i \in 1..4 |-> [j \in 1..4 |->
        a[i][1] * b[1][j] + a[i][2] * b[2][j] + a[i][3] * b[3][j] + a[i][4] * b[4][j]]]

\* a plausible fault of gen_local_transform: the translation is set before the
\* product, which scales it
gen_local_transform_scaled(e) ==
    LET t == [MatScale(1) EXCEPT ![1][4] = e.translation[1],
                                 ![2][4] = e.translation[2],
                                 ![3][4] = e.translation[3]]
    IN  matmul(MatScale(e.scale), t)

\* Entity::gen_local_transform: ry * rx * s, then the translation column
gen_local_transform(e) ==
    LET theta == IF e.direction[1] >= 0 THEN QAcos(e.direction[3])
                 ELSE -QAcos(e.direction[3])
        phi == -QAsin(e.direction[2])
        transform == matmul(matmul(rotate_y(theta), rotate_x(phi)), MatScale(e.scale))
    IN  [transform EXCEPT ![1][4] = e.translation[1],
                          ![2][4] = e.translation[2],
                          ![3][4] = e.translation[3]]

\* Mat4x4f::vecmul of a matrix whose bottom row is (0, 0, 0, 1): the divisor
\* `scale` is t, so nothing is divided
vecmul(m, rhs, translate) ==
    LET t == IF translate THEN 1 ELSE 0
    IN  <<m[1][1] * rhs[1] + m[1][2] * rhs[2] + m[1][3] * rhs[3] + m[1][4] * t,
          m[2][1] * rhs[1] + m[2][2] * rhs[2] + m[2][3] * rhs[3] + m[2][4] * t,
          m[3][1] * rhs[1] + m[3][2] * rhs[2] + m[3][3] * rhs[3] + m[3][4] * t>>

\* Add for Vec3f, as `+=` applies it
VAdd(a, b) == <<a[1] + b[1], a[2] + b[2], a[3] + b[3]>>

\* Entity::translate
translate(e, dx, dy, dz) == [e EXCEPT !.translation = VAdd(@, <<dx, dy, dz>>)]

\* Entity::get_translation
get_translation(e) == e.translation

\* Vec3f::normalize of a vector along an axis: its sign vector
normalize(v) == <<Sgn(v[1]), Sgn(v[2]), Sgn(v[3])>>

\* Entity::set_direction
set_direction(e, x, y, z) == [e EXCEPT !.direction = normalize(<<x, y, z>>)]

\* Entity::set_scale
set_scale(e, k) == [e EXCEPT !.scale = k]

\* Entity::scale
scale(e, k) == [e EXCEPT !.scale = @ * k]

\* Entity::load_texture
load_texture(e, tex) == [e EXCEPT !.texture = tex]

\* Entity::sample_texture: white when no texture is loaded
sample_texture(e, tc) ==
    IF e.texture = None THEN WHITE ELSE sample(e.texture, tc[1], tc[2]).color

\* whether Entity::sample_texture panics
sample_texture_faults(e, tc) ==
    e.texture # None /\ sample(e.texture, tc[1], tc[2]).fault

(***************************************************************************)
(* Canvas::draw_entity                                                     *)
(***************************************************************************)
PIX_W == 1353
PIX_H == 758
CAMERA_POSITION == <<0, 0, 0>>
LIGHT == <<1, -1, -1>>      \* light_direction before normalize()

\* the projection matrix applied to v, then the map to pixel space and `as i32`:
\* x' = f * x / z with f = 1 / tan(45 degrees) = 1, y' = aspect * f * y / z with
\* aspect = PIX_W / PIX_H, both undivided when z = 0;
\* px = (x' + 1) * width / 2, py = (y' + 1) * height / 2
PixelX(cv, v) ==
    IF v[3] # 0 THEN TruncDiv((v[1] + v[3]) * cv.width, 2 * v[3])
    ELSE TruncDiv((v[1] + 1) * cv.width, 2)

PixelY(cv, v) ==
    IF v[3] # 0 THEN TruncDiv((PIX_W * v[2] + PIX_H * v[3]) * cv.height, 2 * PIX_H * v[3])
    ELSE TruncDiv((PIX_W * v[2] + PIX_H) * cv.height, 2 * PIX_H)

\* the projected z in millionths: q * (z - znear) / z with znear = 0.1,
\* zfar = 1000 and q = zfar / (zfar - znear), and -znear * q when z = 0
ProjectedZ(v) ==
    IF v[3] # 0 THEN TruncDiv(1000100 * (10 * v[3] - 1), 10 * v[3])
    ELSE -100010

\* a plausible fault of draw_entity: the test discards the faces that look at the camera
CulledFront(tp0, tp1, tp2) ==
    LET n == cross(VSub(tp1, tp0), VSub(tp2, tp0))
    IN  n # <<0, 0, 0>> /\ dot(n, VSub(CAMERA_POSITION, tp0)) > 0

\* whether the back-face test discards the triangle: face_normal . (camera - tp0) < 0.
\* face_normal is the cross product over its length; over length 0 it is NaN and
\* the comparison is false
Culled(tp0, tp1, tp2) ==
    LET n == cross(VSub(tp1, tp0), VSub(tp2, tp0))
    IN  n # <<0, 0, 0>> /\ dot(n, VSub(CAMERA_POSITION, tp0)) < 0

\* brightness = -face_normal . normalize(LIGHT), before clamp(0.0, 1.0):
\* -(n . LIGHT) / sqrt(3 * |n|^2) for the cross product n in least terms
Brightness(tp0, tp1, tp2) ==
    LET n == Reduced(cross(VSub(tp1, tp0), VSub(tp2, tp0)))
    IN  IF n = <<0, 0, 0>> THEN NaN
        ELSE Factor(-dot(n, LIGHT), 3 * dot(n, n))

\* the arguments of the fill_triangle call for one triangle that is not culled
FillArgs(cv, e, v0, tp0, tp1, tp2) ==
    LET c0 == IF v0.texcoord # NoTexcoord THEN sample_texture(e, v0.texcoord) ELSE WHITE
    IN  [p |-> <<PixelX(cv, tp0), PixelY(cv, tp0), PixelX(cv, tp1), PixelY(cv, tp1),
                 PixelX(cv, tp2), PixelY(cv, tp2)>>,
         color |-> ColorMul(c0, Brightness(tp0, tp1, tp2)),
         depth |-> TruncDiv(ProjectedZ(tp0) + ProjectedZ(tp1) + ProjectedZ(tp2), 3)]

\* the body of `for tri in e.shape.triangles()` for one triangle.  d holds the
\* canvas and the fill_triangle calls made so far
DrawTriangle(d, e, sh, tri) ==
    IF get_faults(sh, tri[1]) \/ get_faults(sh, tri[2]) \/ get_faults(sh, tri[3])
    THEN [d EXCEPT !.cv.fault = TRUE]
    ELSE LET lt == gen_local_transform(e)
             tp0 == vecmul(lt, get(sh, tri[1]).position, TRUE)
             tp1 == vecmul(lt, get(sh, tri[2]).position, TRUE)
             tp2 == vecmul(lt, get(sh, tri[3]).position, TRUE)
             a == FillArgs(d.cv, e, get(sh, tri[1]), tp0, tp1, tp2)
         IN  IF Culled(tp0, tp1, tp2) THEN d
             ELSE IF get(sh, tri[1]).texcoord # NoTexcoord
                     /\ sample_texture_faults(e, get(sh, tri[1]).texcoord)
             THEN [d EXCEPT !.cv.fault = TRUE]
             ELSE [cv |-> fill_triangle(d.cv, a.p[1], a.p[2], a.p[3], a.p[4], a.p[5], a.p[6],
                                        a.color, a.depth),
                   calls |-> Append(d.calls, [tri |-> tri, args |-> a])]

\* draw_entity over the first n triangles; a panic ends the loop
RECURSIVE DrawTriangles(_, _, _, _)
DrawTriangles(cv, e, sh, n) ==
    IF n = 0 THEN [cv |-> cv, calls |-> <<>>]
    ELSE LET d == DrawTriangles(cv, e, sh, n - 1)
         IN  IF d.cv.fault THEN d ELSE DrawTriangle(d, e, sh, sh.triangles[n])

draw_entity(cv, e, sh) == DrawTriangles(cv, e, sh, Len(sh.triangles))

(***************************************************************************)
(* What the history variable `last` records of the state before a call    *)
(***************************************************************************)
\* the content of cell (x, y), None when (x, y) is outside the canvas
CellAt(cv, x, y) ==
    IF InBounds(cv, x, y)
    THEN [pixel |-> cv.pixels[Index(cv, x, y)], depth |-> cv.depth_buffer[Index(cv, x, y)]]
    ELSE [pixel |-> None, depth |-> F32_MIN]

\* the occupied cells
Occupied(cv) == {i \in Cells(cv) : cv.pixels[i] # None}

(***************************************************************************)
(* Actions                                                                 *)
(***************************************************************************)
Install(cv) ==
    /\ width' = cv.width
    /\ height' = cv.height
    /\ pixels' = cv.pixels
    /\ depth_buffer' = cv.depth_buffer
    /\ fault' = cv.fault

\* Window::run before the first iteration of 'main: tick and ent_rot are 0; calls
\* lists the render calls of the current iteration
WindowStart == [pc |-> "events", tick |-> 0, ent_rot |-> 0, calls |-> <<>>]

\* Window::run: Canvas::new, an entity at (0, 0, -50)
InitCanvas ==
    /\ window = WindowStart
    /\ width = new.width
    /\ height = new.height
    /\ pixels = new.pixels
    /\ depth_buffer = new.depth_buffer
    /\ fault = new.fault
    /\ ops = 0
    /\ last = [op |-> "new"]
    /\ out = <<>>
    /\ entity = set_translation(with_geometry, 0, 0, -50)

\* the positions shapes are built from, and the mesh the entity of Spec holds
PoolPositions == << <<-40, -20, 0>>, <<40, -20, 0>>, <<0, 20, 0>>, <<0, 0, 20>> >>
StartTriangles == << <<0, 1, 2>>, <<1, 0, 3>>, <<0, 2, 1>> >>

Init ==
    /\ InitCanvas
    /\ shape = with_tris(PoolPositions, StartTriangles)

InitShape ==
    /\ InitCanvas
    /\ shape = NoShape

Set ==
    /\ ~fault
    /\ ops < MaxOps
    /\ \E x \in -1..width, y \in -1..height, color \in Palette, depth \in Depths :
          /\ Install(set(Canvas, x, y, color, depth))
          /\ last' = [op |-> "set", x |-> x, y |-> y, color |-> color, depth |-> depth,
                      prev |-> CellAt(Canvas, x, y)]
    /\ ops' = ops + 1
    /\ out' = <<>>
    /\ UNCHANGED <<shape, entity, window>>

\* a call of fill_triangle with vertices from xs \X ys
FillTriangleOn(xs, ys, colors, depths) ==
    /\ ~fault
    /\ \E x0 \in xs, x1 \in xs, x2 \in xs, y0 \in ys, y1 \in ys, y2 \in ys :
         \E color \in colors, depth \in depths :
          /\ Install(fill_triangle(Canvas, x0, y0, x1, y1, x2, y2, color, depth))
          /\ last' = [op |-> "fill_triangle", p |-> <<x0, y0, x1, y1, x2, y2>>,
                      color |-> color, depth |-> depth]
    /\ ops' = ops + 1
    /\ out' = <<>>
    /\ UNCHANGED <<shape, entity, window>>

\* fill_triangle on the corners of the canvas, among other draw calls
FillTriangle ==
    /\ ops < MaxOps
    /\ FillTriangleOn({0, width - 1}, {0, height - 1}, {WHITE}, {MaxDepth})

\* fill_triangle on a freshly cleared canvas, any vertices in and around the
\* canvas and the largest i32 as a y
FillTriangleFresh ==
    /\ ops = 0
    /\ FillTriangleOn(-XMargin..width, (-1..height) \cup {I32_MAX}, {RED}, {0})

Clear ==
    /\ ~fault
    /\ Install(clear(Canvas))
    /\ ops' = 0
    /\ last' = [op |-> "clear", dirty |-> Occupied(Canvas) # {}]
    /\ out' = <<>>
    /\ UNCHANGED <<shape, entity, window>>

ToS ==
    /\ ~fault
    /\ out' = to_s(Canvas)
    /\ fault' = to_s_overflows(Canvas)
    /\ last' = [op |-> "to_s"]
    /\ UNCHANGED <<width, height, pixels, depth_buffer, ops, shape, entity, window>>

DrawEntity ==
    /\ ~fault
    /\ shape.built
    /\ ops < MaxOps
    /\ LET d == draw_entity(Canvas, entity, shape)
       IN  /\ Install(d.cv)
           /\ last' = [op |-> "draw_entity", calls |-> d.calls,
                       dirty |-> Occupied(Canvas) # {}]
    /\ ops' = ops + 1
    /\ out' = <<>>
    /\ UNCHANGED <<shape, entity, window>>

\* the inputs of the constructors
Triples == (0..3) \X (0..3) \X (0..3)
SecondTriangles == {<<0, 1, 2>>, <<0, 2, 1>>, <<0, 1, 3>>}
TriLists ==
    {<<>>} \cup {<<t>> : t \in Triples} \cup {<<t, u>> : t \in Triples, u \in SecondTriangles}
Positions(np) == SubSeq(PoolPositions, 1, np)
Normals(n) == [k \in 1..n |-> Normal]
Texcoords(n) == [k \in 1..n |-> <<0, 0>>]

\* a constructor has returned b, or has panicked
Construct(name, b) ==
    /\ shape' = b
    /\ fault' = ~b.built
    /\ last' = [op |-> name]
    /\ UNCHANGED <<width, height, pixels, depth_buffer, ops, out, entity, window>>

NewShape ==
    /\ ~fault /\ ~shape.built
    /\ \E np \in 3..4, tris \in TriLists :
         \E nn \in (np - 1)..np, nt \in (np - 1)..np :
            Construct("Shape::new", Shape_new(Positions(np), Normals(nn), Texcoords(nt), tris))

WithNormals ==
    /\ ~fault /\ ~shape.built
    /\ \E np \in 3..4, tris \in TriLists :
         \E nn \in (np - 1)..np :
            Construct("with_normals", with_normals(Positions(np), Normals(nn), tris))

WithTris ==
    /\ ~fault /\ ~shape.built
    /\ \E np \in 3..4, tris \in TriLists :
            Construct("with_tris", with_tris(Positions(np), tris))

WithTexcoords ==
    /\ ~fault /\ ~shape.built
    /\ \E np \in 3..4, tris \in TriLists :
         \E nt \in (np - 1)..np :
            Construct("with_texcoords", with_texcoords(Positions(np), tris, Texcoords(nt)))

\* files of np `v` lines, nvt `vt` lines and one `f` line of three references
FaceIndices == {-4, -3, -2, -1, 1, 2, 3, 4}

VLines(np) == [k \in 1..np |-> [k |-> "v", p |-> PoolPositions[k]]]

VtLines(nvt) == [k \in 1..nvt |-> [k |-> "vt", t |-> <<0, 0>>]]

FaceLine(a, b, c, nvt) ==
    IF nvt = 0 THEN [k |-> "f", refs |-> << <<a>>, <<b>>, <<c>> >>]
    ELSE [k |-> "f", refs |-> << <<a, 1>>, <<b, -1>>, <<c, 1>> >>]

LoadFromFile ==
    /\ ~fault /\ ~shape.built
    /\ \E np \in 3..4, nvt \in 0..1 :
         \E a \in FaceIndices, b \in FaceIndices, c \in FaceIndices :
            LET lines == VLines(np) \o VtLines(nvt) \o <<FaceLine(a, b, c, nvt)>>
                b0 == load_from_file(lines)
            IN  /\ shape' = b0
                /\ fault' = ~b0.built
                /\ last' = [op |-> "load_from_file", lines |-> lines]
    /\ UNCHANGED <<width, height, pixels, depth_buffer, ops, out, entity, window>>

\* Entity::load_texture with a decoded texture of w x h pixels
LoadTexture ==
    /\ ~fault
    /\ entity.texture = None
    /\ \E w \in 1..MaxTex, h \in 1..MaxTex :
          entity' = load_texture(entity, Texture(w, h))
    /\ last' = [op |-> "load_texture"]
    /\ UNCHANGED <<width, height, pixels, depth_buffer, fault, ops, out, shape, window>>

\* Texture::sample on the entity's texture
TexCoords == (-TexDen)..(2 * TexDen)

Sample ==
    /\ ~fault
    /\ entity.texture # None
    /\ \E u \in TexCoords, v \in TexCoords :
          LET r == sample(entity.texture, u, v)
          IN  /\ last' = [op |-> "sample", u |-> u, v |-> v, r |-> r]
              /\ fault' = r.fault
    /\ UNCHANGED <<width, height, pixels, depth_buffer, ops, out, shape, entity, window>>

Next == Set \/ FillTriangle \/ DrawEntity \/ Clear \/ ToS

Spec == Init /\ [][Next]_vars

NextFill == FillTriangleFresh \/ Clear

SpecFill == Init /\ [][NextFill]_vars

\* the inputs of the pose mutators
Deltas == {<<20, 0, 0>>, <<0, -20, 0>>, <<0, 0, -10>>}
Places == {<<0, 0, -50>>, <<20, 20, -70>>}
AxisVectors == {<<1, 0, 0>>, <<-1, 0, 0>>, <<0, 2, 0>>, <<0, -1, 0>>, <<0, 0, 1>>, <<0, 0, -3>>}
Scales == {-1, 0, 1, 2}
Factors == {-1, 0, 2}

\* a pose mutator has run
Moved(e, rec) ==
    /\ entity' = e
    /\ last' = rec
    /\ ops' = ops + 1
    /\ UNCHANGED <<width, height, pixels, depth_buffer, fault, out, shape, window>>

Translate ==
    /\ ~fault /\ ops < MaxMoves
    /\ \E d \in Deltas : Moved(translate(entity, d[1], d[2], d[3]), [op |-> "translate", d |-> d])

SetTranslation ==
    /\ ~fault /\ ops < MaxMoves
    /\ \E p \in Places :
          Moved(set_translation(entity, p[1], p[2], p[3]), [op |-> "set_translation", p |-> p])

SetDirection ==
    /\ ~fault /\ ops < MaxMoves
    /\ \E v \in AxisVectors :
          Moved(set_direction(entity, v[1], v[2], v[3]), [op |-> "set_direction", v |-> v])

SetScale ==
    /\ ~fault /\ ops < MaxMoves
    /\ \E k \in Scales : Moved(set_scale(entity, k), [op |-> "set_scale", k |-> k])

Scale ==
    /\ ~fault /\ ops < MaxMoves
    /\ \E k \in Factors : Moved(scale(entity, k), [op |-> "scale", k |-> k])

\* Entity::gen_local_transform takes &self: the matrix is returned, the entity stays
GenLocalTransform ==
    /\ ~fault
    /\ last' = [op |-> "gen_local_transform", m |-> gen_local_transform(entity)]
    /\ UNCHANGED <<width, height, pixels, depth_buffer, fault, ops, out, shape, entity, window>>

NextEntity ==
    \/ Translate \/ SetTranslation \/ SetDirection \/ SetScale \/ Scale
    \/ GenLocalTransform

SpecEntity == InitShape /\ [][NextEntity]_vars

\* the inputs of Color * f32: channels around the truncation steps, and the
\* factors -1, 0, 1/255, 1/8, 1/2, 1/sqrt(3), 1, 2 and NaN
Channels == {0, 1, 2, 7, 8, 128, 255}
Colors == Channels \X Channels \X Channels
Brightnesses ==
    {Factor(-1, 1), Factor(0, 1), Factor(1, 65025), EIGHTH, Factor(1, 4), Factor(1, 3),
     Factor(1, 1), Factor(2, 1), NaN}

\* a colour and a brightness about to be multiplied
InitColor ==
    /\ width = new.width
    /\ height = new.height
    /\ pixels = new.pixels
    /\ depth_buffer = new.depth_buffer
    /\ fault = new.fault
    /\ ops = 0
    /\ out = <<>>
    /\ entity = set_translation(with_geometry, 0, 0, -50)
    /\ shape = NoShape
    /\ window = WindowStart
    /\ \E c \in Colors, k \in Brightnesses : last = [op |-> "operands", c |-> c, k |-> k]

\* `c * k` of impl Mul<f32> for Color
Mul ==
    /\ ~fault
    /\ last.op = "operands"
    /\ last' = [op |-> "mul", c |-> last.c, k |-> last.k, r |-> ColorMul(last.c, last.k)]
    /\ UNCHANGED <<width, height, pixels, depth_buffer, fault, ops, out, shape, entity, window>>

NextColor == Mul

SpecColor == InitColor /\ [][NextColor]_vars

\* the keys Window::run handles, but T and G: ent_yaw stays 0, and ent_rot counts
\* quarter turns; a translation step is one unit
Keys == {"Escape", "W", "S", "A", "D", "Q", "E", "R", "Other"}

\* the match arm of key k on the entity
KeyMoves(e, k) ==
    CASE k = "W" -> translate(e, 0, 1, 0)
      [] k = "S" -> translate(e, 0, -1, 0)
      [] k = "A" -> translate(e, 1, 0, 0)
      [] k = "D" -> translate(e, -1, 0, 0)
      [] k = "Q" -> translate(e, 0, 0, -1)
      [] k = "E" -> translate(e, 0, 0, 1)
      [] OTHER -> e

\* the match arm of key k on ent_rot
KeyTurns(rot, k) == IF k = "R" THEN (rot + 1) % 4 ELSE rot

\* the head of one iteration: the events of at most one pressed key, then
\* set_direction; Escape leaves the loop
RunEvents ==
    /\ ~fault
    /\ window.pc = "events"
    /\ window.tick < MaxFrames
    /\ \E keys \in {<<>>} \cup {<<k>> : k \in Keys} :
          IF keys = <<"Escape">>
          THEN /\ window' = [window EXCEPT !.pc = "done", !.calls = <<>>]
               /\ UNCHANGED entity
          ELSE LET k == IF keys = <<>> THEN "Other" ELSE keys[1]
                   rot == KeyTurns(window.ent_rot, k)
               IN  /\ entity' = set_direction(KeyMoves(entity, k), QSin(rot), 0, QCos(rot))
                   /\ window' = [window EXCEPT !.pc = "clear", !.ent_rot = rot, !.calls = <<>>]
    /\ last' = [op |-> "events"]
    /\ UNCHANGED <<width, height, pixels, depth_buffer, fault, ops, out, shape>>

\* canvas.clear()
RunClear ==
    /\ ~fault
    /\ window.pc = "clear"
    /\ Install(clear(Canvas))
    /\ window' = [window EXCEPT !.pc = "draw_entity", !.calls = Append(@, "clear")]
    /\ last' = [op |-> "clear", dirty |-> Occupied(Canvas) # {}]
    /\ ops' = 0
    /\ out' = <<>>
    /\ UNCHANGED <<shape, entity>>

\* canvas.draw_entity(&entity); a panic ends the run
RunDrawEntity ==
    /\ ~fault
    /\ window.pc = "draw_entity"
    /\ LET d == draw_entity(Canvas, entity, shape)
       IN  /\ Install(d.cv)
           /\ last' = [op |-> "draw_entity", calls |-> d.calls,
                       dirty |-> pixels # new.pixels \/ depth_buffer # new.depth_buffer]
           /\ window' = [window EXCEPT !.pc = IF d.cv.fault THEN "done" ELSE "print",
                                       !.calls = Append(@, "draw_entity")]
    /\ ops' = ops + 1
    /\ UNCHANGED <<out, shape, entity>>

\* print!(canvas.to_s()), tick += 1 and the sleep to the next iteration
RunPrint ==
    /\ ~fault
    /\ window.pc = "print"
    /\ out' = to_s(Canvas)
    /\ fault' = to_s_overflows(Canvas)
    /\ last' = [op |-> "to_s"]
    /\ window' = [window EXCEPT !.pc = IF to_s_overflows(Canvas) THEN "done" ELSE "events",
                                !.tick = @ + 1, !.calls = Append(@, "to_s")]
    /\ UNCHANGED <<width, height, pixels, depth_buffer, ops, shape, entity>>

NextWindow == RunEvents \/ RunClear \/ RunDrawEntity \/ RunPrint

SpecWindow == Init /\ [][NextWindow]_vars

\* the coordinates of the ends of the lines drawn: a cell outside on either side
\* and one inside, which give horizontal, vertical, diagonal, steep and shallow
\* lines of up to five steps
LineEnds == {-1, 1, 4}

DrawLine ==
    /\ ~fault
    /\ ops < MaxOps
    /\ \E x0 \in LineEnds, y0 \in LineEnds, x1 \in LineEnds, y1 \in LineEnds :
         \E color \in {WHITE}, depth \in {0, MaxDepth} :
          /\ Install(draw_line(Canvas, x0, y0, x1, y1, color, depth))
          /\ last' = [op |-> "draw_line", p |-> <<x0, y0, x1, y1>>,
                      color |-> color, depth |-> depth]
    /\ ops' = ops + 1
    /\ out' = <<>>
    /\ UNCHANGED <<shape, entity, window>>

\* set on the cells of the top row and around it
SetTop ==
    /\ ~fault
    /\ ops < MaxOps
    /\ \E x \in -1..width, y \in -1..0, color \in {RED}, depth \in Depths :
          /\ Install(set(Canvas, x, y, color, depth))
          /\ last' = [op |-> "set", x |-> x, y |-> y, color |-> color, depth |-> depth,
                      prev |-> CellAt(Canvas, x, y)]
    /\ ops' = ops + 1
    /\ out' = <<>>
    /\ UNCHANGED <<shape, entity, window>>

NextDraw == SetTop \/ DrawLine \/ FillTriangle \/ DrawEntity \/ Clear

SpecDraw == Init /\ [][NextDraw]_vars

\* the colours a sub-cell of the first block holds: none, the brightest, and one
\* that an eighth truncates to black
BlockColors == {None, WHITE, <<0, 0, 7>>}

\* a canvas whose first block was drawn at depth 0, each sub-cell in any colour
InitBlock ==
    /\ width = new.width
    /\ height = new.height
    /\ \E f \in [0..7 -> BlockColors] :
          pixels = [i \in Cells(new) |->
                       IF \E n \in 0..7 : SubIndex(new, 0, 0, n) = i
                       THEN f[CHOOSE n \in 0..7 : SubIndex(new, 0, 0, n) = i]
                       ELSE None]
    /\ depth_buffer = [i \in Cells(new) |-> IF pixels[i] = None THEN F32_MIN ELSE 0]
    /\ fault = new.fault
    /\ ops = 0
    /\ last = [op |-> "new"]
    /\ out = <<>>
    /\ entity = set_translation(with_geometry, 0, 0, -50)
    /\ shape = NoShape
    /\ window = WindowStart

NextBlock == ToS

SpecBlock == InitBlock /\ [][NextBlock]_vars

NextTex == LoadTexture \/ Sample

SpecTex == InitShape /\ [][NextTex]_vars

NextShape ==
    \/ NewShape \/ WithNormals \/ WithTris \/ WithTexcoords \/ LoadFromFile
    \/ DrawEntity \/ Clear

SpecShape == InitShape /\ [][NextShape]_vars

(***************************************************************************)
(* Claims                                                                  *)
(***************************************************************************)

\* C1: set on an in-bounds cell writes colour and depth exactly when the new
\* depth is >= the stored depth (an equal depth overwrites); when the new depth
\* is below the stored depth, the cell's pixel and depth stay as they were.
C1_SetDepthTest ==
    [][(last'.op = "set" /\ InBounds(Canvas, last'.x, last'.y)) =>
        LET i == Index(Canvas, last'.x, last'.y)
        IN  IF last'.depth >= depth_buffer[i]
            THEN pixels'[i] = last'.color /\ depth_buffer'[i] = last'.depth
            ELSE pixels'[i] = pixels[i] /\ depth_buffer'[i] = depth_buffer[i]]_vars

\* an equal-depth write over an occupied cell of another colour has taken place
C1_Witness ==
    /\ last.op = "set"
    /\ InBounds(Canvas, last.x, last.y)
    /\ last.prev.pixel # None
    /\ last.prev.pixel # last.color
    /\ last.prev.depth = last.depth
    /\ pixels[Index(Canvas, last.x, last.y)] = last.color

\* C2: for an in-bounds cell and two writes with depths d1 < d2, both orders
\* leave the cell as the d2 write alone leaves it.
C2_DepthMonotonic ==
    \A x \in 0..(width - 1), y \in 0..(height - 1) :
      \A c1 \in Palette, c2 \in Palette, d1 \in Depths, d2 \in Depths :
        d1 < d2 =>
          LET only2 == CellAt(set(Canvas, x, y, c2, d2), x, y)
              ord12 == CellAt(set(set(Canvas, x, y, c1, d1), x, y, c2, d2), x, y)
              ord21 == CellAt(set(set(Canvas, x, y, c2, d2), x, y, c1, d1), x, y)
          IN  ord12 = only2 /\ ord21 = only2

\* a cell holds a depth strictly between two depths that can be written, and
\* another holds the sentinel: the d1 write passes and the d2 write decides
C2_Witness ==
    /\ \E i \in Cells(Canvas) : pixels[i] # None /\ depth_buffer[i] = 0
    /\ \E i \in Cells(Canvas) : pixels[i] # None /\ depth_buffer[i] = MaxDepth
    /\ F32_MIN < 0 /\ 0 < MaxDepth

\* C3: calling set twice with the same arguments leaves both buffers as one call does.
C3_SetIdempotent ==
    \A x \in -1..width, y \in -1..height, c \in Palette, d \in Depths :
        set(set(Canvas, x, y, c, d), x, y, c, d) = set(Canvas, x, y, c, d)

\* the last set wrote over an occupied cell, so a second call meets its own write
C3_Witness ==
    /\ last.op = "set"
    /\ InBounds(Canvas, last.x, last.y)
    /\ last.prev.pixel # None
    /\ last.prev.pixel # last.color
    /\ pixels[Index(Canvas, last.x, last.y)] = last.color

\* C4: set with a coordinate outside the canvas does not fault and changes no
\* cell of either buffer, also when y * width + x is the index of a cell.
C4_OutOfBoundsSkipped ==
    [][(last'.op = "set" /\ ~InBounds(Canvas, last'.x, last'.y)) =>
        /\ pixels' = pixels
        /\ depth_buffer' = depth_buffer
        /\ ~fault']_vars

\* an out-of-range x whose linear index is a cell of the neighbouring row
C4_Witness ==
    /\ last.op = "set"
    /\ last.x = width
    /\ last.y \in 0..(height - 2)
    /\ Index(Canvas, last.x, last.y) \in Cells(Canvas)
    /\ pixels[Index(Canvas, last.x, last.y)] = None
    /\ ~fault

\* C5: after clear every pixel is empty, every depth is the sentinel, both
\* buffers have width * height cells, and width and height are unchanged.
C5_ClearResets ==
    [][last'.op = "clear" =>
        /\ width' = width
        /\ height' = height
        /\ DOMAIN pixels' = 0..(width * height - 1)
        /\ DOMAIN depth_buffer' = 0..(width * height - 1)
        /\ \A i \in 0..(width * height - 1) :
              pixels'[i] = None /\ depth_buffer'[i] = F32_MIN]_vars

\* clear was called on a canvas with occupied cells
C5_Witness ==
    /\ last.op = "clear"
    /\ last.dirty
    /\ \A i \in Cells(Canvas) : pixels[i] = None /\ depth_buffer[i] = F32_MIN

\* C8: in the output of to_s every block with an occupied sub-cell contributes
\* cursor, colour and the glyph 0x2800 + the sum of 2^i over its occupied
\* sub-cells, where the left column's rows 0..2 are bits 0..2, the right
\* column's rows 0..2 are bits 3..5 and row 3 is bits 6 (left) and 7 (right);
\* a block with no occupied sub-cell contributes nothing.
BitOf(dx, dy) == IF dy < 3 THEN dx * 3 + dy ELSE 6 + dx

DotValue(row, col, dx, dy) ==
    IF pixels[(row * 4 + dy) * width + col * 2 + dx] # None THEN Pow2(BitOf(dx, dy)) ELSE 0

GlyphOf(row, col) ==
    BRAILLE_BASE
    + DotValue(row, col, 0, 0) + DotValue(row, col, 0, 1)
    + DotValue(row, col, 0, 2) + DotValue(row, col, 0, 3)
    + DotValue(row, col, 1, 0) + DotValue(row, col, 1, 1)
    + DotValue(row, col, 1, 2) + DotValue(row, col, 1, 3)

BlockCoords == (0..(height \div 4 - 1)) \X (0..(width \div 2 - 1))

C8_GlyphCompositing ==
    out # <<>> =>
      /\ out[1] = <<"clear">>
      /\ Len(out) = 1 + 3 * Cardinality({b \in BlockCoords : GlyphOf(b[1], b[2]) # BRAILLE_BASE})
      /\ \A b \in BlockCoords :
           IF GlyphOf(b[1], b[2]) = BRAILLE_BASE
           THEN \A j \in 1..Len(out) : out[j] # <<"goto", b[2] + 1, b[1] + 1>>
           ELSE \E j \in 2..(Len(out) - 2) :
                   /\ out[j] = <<"goto", b[2] + 1, b[1] + 1>>
                   /\ out[j + 1][1] = "fg"
                   /\ out[j + 2] = <<"glyph", GlyphOf(b[1], b[2])>>

\* to_s ran on a canvas with one block holding exactly one occupied sub-cell,
\* not the first of the order, and another block holding none
C8_Witness ==
    /\ out # <<>>
    /\ \E b \in BlockCoords :
          GlyphOf(b[1], b[2]) \in {BRAILLE_BASE + Pow2(i) : i \in 1..7}
    /\ \E b \in BlockCoords : GlyphOf(b[1], b[2]) = BRAILLE_BASE


\* C7: after fill_triangle on a freshly cleared canvas with three distinct
\* in-bounds vertices, each vertex pixel holds the given colour and depth.
FillVertices == {<<last.p[1], last.p[2]>>, <<last.p[3], last.p[4]>>, <<last.p[5], last.p[6]>>}

C7_VerticesFilled ==
    (/\ last.op = "fill_triangle"
     /\ Cardinality(FillVertices) = 3
     /\ \A v \in FillVertices : InBounds(Canvas, v[1], v[2]))
    => \A v \in FillVertices :
          /\ pixels[Index(Canvas, v[1], v[2])] = last.color
          /\ depth_buffer[Index(Canvas, v[1], v[2])] = last.depth

\* a triangle of three distinct in-bounds vertices, no two on one scanline, was filled
C7_Witness ==
    /\ last.op = "fill_triangle"
    /\ Cardinality(FillVertices) = 3
    /\ Cardinality({v[2] : v \in FillVertices}) = 3
    /\ Cardinality({v[1] : v \in FillVertices}) = 3
    /\ \A v \in FillVertices : InBounds(Canvas, v[1], v[2])
    /\ \A v \in FillVertices : pixels[Index(Canvas, v[1], v[2])] = last.color
    /\ ~fault

\* C9 as claimed: fill_triangle completes without fault for any integer vertex
\* coordinates and leaves the buffers with their width * height cells.
C9_FillNeverFaults ==
    last.op = "fill_triangle" =>
        /\ ~fault
        /\ DOMAIN pixels = 0..(width * height - 1)
        /\ DOMAIN depth_buffer = 0..(width * height - 1)

(***************************************************************************)
(* C6: back-face culling                                                   *)
(***************************************************************************)
\* the vertex of the entity's shape with index i, after the local transform
C6_Transformed(i) == vecmul(gen_local_transform(entity), shape.va[i + 1].position, TRUE)

C6_Valid(tri) == \A j \in 1..3 : tri[j] < Len(shape.va)

\* (tp1 - tp0) x (tp2 - tp0) has a negative dot product with camera.position - tp0
C6_FacesAway(tri) ==
    LET tp0 == C6_Transformed(tri[1])
        tp1 == C6_Transformed(tri[2])
        tp2 == C6_Transformed(tri[3])
    IN  dot(cross(VSub(tp1, tp0), VSub(tp2, tp0)), VSub(CAMERA_POSITION, tp0)) < 0

C6_Reversed(tri) == <<tri[1], tri[3], tri[2]>>

C6_Tris == {shape.triangles[k] : k \in 1..Len(shape.triangles)}

\* C6: draw_entity calls fill_triangle for no triangle that faces away from the
\* camera; a draw of a shape whose triangles all face away leaves every pixel and
\* every depth as it was; and the same entity holding only the reversed winding
\* of a triangle that faces away gets exactly one fill_triangle call, for it.
C6_BackFaceCulling ==
    [][last'.op = "draw_entity" =>
        /\ \A k \in 1..Len(last'.calls) : ~C6_FacesAway(last'.calls[k].tri)
        /\ (\A tri \in C6_Tris : C6_Valid(tri) /\ C6_FacesAway(tri)) =>
                /\ pixels' = pixels
                /\ depth_buffer' = depth_buffer
                /\ ~fault'
        /\ \A tri \in C6_Tris : (C6_Valid(tri) /\ C6_FacesAway(tri)) =>
                LET r == draw_entity(Canvas, entity,
                                     Built(shape.va, <<C6_Reversed(tri)>>))
                IN  /\ Len(r.calls) = 1
                    /\ r.calls[1].tri = C6_Reversed(tri)
                    /\ ~C6_FacesAway(C6_Reversed(tri))]_vars

\* a shape with a triangle that faces away has been drawn and nothing was filled
C6_Witness ==
    /\ last.op = "draw_entity"
    /\ ~fault
    /\ C6_Tris # {}
    /\ \A tri \in C6_Tris : C6_Valid(tri) /\ C6_FacesAway(tri)
    /\ last.calls = <<>>
    /\ Occupied(Canvas) = {}

(***************************************************************************)
(* C10: triangle indices and the vertex array                              *)
(***************************************************************************)
\* C10: every shape a constructor returned has every index of every triangle
\* below the length of its vertex array, and no draw_entity faults.
C10_IndicesInRange ==
    /\ shape.built =>
          \A k \in 1..Len(shape.triangles) : \A j \in 1..3 :
              shape.triangles[k][j] < Len(shape.va)
    /\ last.op = "draw_entity" => ~fault

(***************************************************************************)
(* C11: OBJ face index resolution                                          *)
(***************************************************************************)
\* the `v` lines and the face values of the file last loaded
C11_VPositions == SelectSeq(last.lines, LAMBDA l : l.k = "v")
C11_Face == SelectSeq(last.lines, LAMBDA l : l.k = "f")[1].refs
C11_Values == [j \in 1..Len(C11_Face) |-> C11_Face[j][1]]

\* the index the value v names: k - 1 for k > 0, and for -k the k-th position
\* counted back from the end of the positions read so far
C11_Resolved(v) == IF v > 0 THEN v - 1 ELSE Len(C11_VPositions) + v

\* C11 (amended): a shape that load_from_file returns for a file with one
\* three-value face has exactly one triangle, the resolved indices in the order
\* of the face, and its vertices hold the input positions in input order, all
\* of them when the faces carry no texture coordinates or three positions are
\* declared; so with three positions `f 1 2 3` and `f -3 -2 -1` give (0,1,2)
\* and `f -1 -2 -3` gives (2,1,0).
C11_IndexResolution ==
    (last.op = "load_from_file" /\ shape.built) =>
        /\ shape.triangles = << <<C11_Resolved(C11_Values[1]), C11_Resolved(C11_Values[2]),
                                   C11_Resolved(C11_Values[3])>> >>
        /\ \A j \in 1..3 : C11_Resolved(C11_Values[j]) \in 0..(Len(C11_VPositions) - 1)
        /\ Len(shape.va) <= Len(C11_VPositions)
        /\ \A i \in 1..Len(shape.va) : shape.va[i].position = C11_VPositions[i].p
        /\ (Len(C11_VPositions) = 3 \/ Len(C11_Face[1]) = 1) =>
                Len(shape.va) = Len(C11_VPositions)
        /\ (Len(C11_VPositions) = 3 /\ C11_Values \in {<<1, 2, 3>>, <<-3, -2, -1>>}) =>
                shape.triangles = << <<0, 1, 2>> >>
        /\ (Len(C11_VPositions) = 3 /\ C11_Values = <<-1, -2, -3>>) =>
                shape.triangles = << <<2, 1, 0>> >>

\* `f -1 -2 -3` after three `v` lines has been loaded
C11_Witness ==
    /\ last.op = "load_from_file"
    /\ shape.built
    /\ Len(C11_VPositions) = 3
    /\ C11_Values = <<-1, -2, -3>>
    /\ shape.triangles = << <<2, 1, 0>> >>

\* C11 as stated: with three positions declared, `f 1 2 3` and `f -1 -2 -3` both
\* give exactly the triangle (0,1,2) over three vertices holding the positions.
C11_SameTriangle ==
    (/\ last.op = "load_from_file"
     /\ Len(C11_VPositions) = 3
     /\ C11_Values \in {<<1, 2, 3>>, <<-1, -2, -3>>}) =>
        /\ shape.built
        /\ shape.triangles = << <<0, 1, 2>> >>
        /\ Len(shape.va) = 3
        /\ \A i \in 1..3 : shape.va[i].position = C11_VPositions[i].p

(***************************************************************************)
(* C12: Texture::sample                                                    *)
(***************************************************************************)
\* C12: every sample reads a cell (x, y) of the texture, 0 <= x < width and
\* 0 <= y < height, at index y * width + x, and never faults.
C12_SampleInRange ==
    last.op = "sample" =>
        /\ ~fault
        /\ last.r.x >= 0 /\ last.r.x < entity.texture.width
        /\ last.r.y >= 0 /\ last.r.y < entity.texture.height
        /\ last.r.index = last.r.y * entity.texture.width + last.r.x

(***************************************************************************)
(* C13: no hidden caching in Entity                                        *)
(***************************************************************************)
C13_Column(m) == <<m[1][4], m[2][4], m[3][4]>>

\* an entity put into the pose of e by one call of each setter
C13_Posed(e) ==
    set_scale(set_direction(set_translation(with_geometry, e.translation[1],
                                            e.translation[2], e.translation[3]),
                            e.direction[1], e.direction[2], e.direction[3]),
              e.scale)

\* C13: translate adds its argument to the stored translation, set_translation
\* replaces it, the other mutators leave it; a call of gen_local_transform leaves
\* the entity as it was and returns the matrix of the current pose, the same
\* matrix a new entity put into that pose gives, with get_translation() as its
\* translation column.
C13_NoHiddenCaching ==
    [][/\ last'.op = "translate" =>
              get_translation(entity') = <<entity.translation[1] + last'.d[1],
                                           entity.translation[2] + last'.d[2],
                                           entity.translation[3] + last'.d[3]>>
       /\ last'.op = "set_translation" => get_translation(entity') = last'.p
       /\ last'.op \in {"set_direction", "set_scale", "scale"} =>
              get_translation(entity') = get_translation(entity)
       /\ last'.op = "gen_local_transform" =>
              /\ entity' = entity
              /\ C13_Column(last'.m) = get_translation(entity)
              /\ last'.m = gen_local_transform(C13_Posed(entity))]_vars

\* the matrix was taken after the translation, the direction and the scale changed
C13_Witness ==
    /\ last.op = "gen_local_transform"
    /\ entity.translation # <<0, 0, -50>>
    /\ entity.scale = 2
    /\ entity.direction # <<0, 0, 1>>
    /\ C13_Column(last.m) = entity.translation

(***************************************************************************)
(* C14: the scale of an entity                                             *)
(***************************************************************************)
\* C14: after any sequence of set_scale and scale calls the stored scale is > 0.
C14_ScalePositive == entity.scale > 0

(***************************************************************************)
(* C15: the avoid-pure-black rule                                          *)
(***************************************************************************)
\* whether channel ch times the factor k, clamped into [0, 1], truncates to 0:
\* k is NaN or not positive, or ch is 0, or k <= 1 and ch * k < 1
C15_TruncatesToZero(ch, k) ==
    \/ k = NaN
    \/ k.num <= 0
    \/ ch = 0
    \/ (k.num * k.num <= k.den2 /\ (ch * k.num) * (ch * k.num) < k.den2)

\* whether the minimum non-zero colour applies to c * k
C15_MinimumApplies(c, k) ==
    c # BLACK /\ \A i \in 1..3 : C15_TruncatesToZero(c[i], k)

\* C15: c * k is (0,0,0) only if c is; it is (1,1,1) when c is not black and
\* every scaled channel truncates to 0; in every other case no channel of c * k
\* is above the channel of c.
C15_AvoidPureBlack ==
    last.op = "mul" =>
        /\ last.r = BLACK => last.c = BLACK
        /\ C15_MinimumApplies(last.c, last.k) => last.r = <<1, 1, 1>>
        /\ ~C15_MinimumApplies(last.c, last.k) => \A i \in 1..3 : last.r[i] <= last.c[i]

\* a colour that is not black was multiplied by a brightness of 0 or less
C15_Witness ==
    /\ last.op = "mul"
    /\ last.c # BLACK
    /\ last.k \in {Factor(0, 1), Factor(-1, 1)}
    /\ last.r = <<1, 1, 1>>

(***************************************************************************)
(* C16: frame ordering in Window::run                                      *)
(***************************************************************************)
\* the render calls of one frame, in order
C16_Frame == <<"clear", "draw_entity", "to_s">>

\* C16: the render calls of every iteration are clear, draw_entity, to_s in this
\* order, each at most once and none before the one it follows; an iteration
\* that has reached its end made each of them exactly once; and draw_entity
\* found the buffers as clear leaves them.
C16_FrameOrdering ==
    /\ \E n \in 0..3 : window.calls = SubSeq(C16_Frame, 1, n)
    /\ (window.pc = "events" /\ window.tick > 0) => window.calls = C16_Frame
    /\ window.pc = "print" => window.calls = SubSeq(C16_Frame, 1, 2)
    /\ window.pc = "draw_entity" =>
          /\ window.calls = <<"clear">>
          /\ pixels = new.pixels /\ depth_buffer = new.depth_buffer
    /\ (last.op = "draw_entity" /\ window.calls # <<>>) => ~last.dirty

\* the second frame is about to be drawn: the first one left cells occupied, and
\* clear has emptied them
C16_Witness ==
    /\ window.tick = 1
    /\ window.pc = "draw_entity"
    /\ last.op = "clear"
    /\ last.dirty

(***************************************************************************)
(* C17: the left edge is left of the right edge on every scanline          *)
(***************************************************************************)
\* the vertices of the last fill_triangle, sorted by y as fill_triangle sorts them
C17_Sorted ==
    SortByY(last.p[1], last.p[2], last.p[3], last.p[4], last.p[5], last.p[6])

\* the scanlines i = y - y0 of the last fill_triangle whose range
\* x_left[i]..x_right[i] + 1 is empty
C17_EmptyLines ==
    {i \in 0..(C17_Sorted[6] - C17_Sorted[2]) :
        XLeft(C17_Sorted, i) > XRight(C17_Sorted, i)}

\* C17: after a fill_triangle that did not panic, x_left[i] <= x_right[i] on
\* every scanline i of y0..=y2.
C17_LeftOfRight ==
    (last.op = "fill_triangle" /\ ~fault) => C17_EmptyLines = {}

(***************************************************************************)
(* C18: fill_triangle writes inside the bounding box of its vertices       *)
(***************************************************************************)
\* the x values and the y values of the vertices of the last fill_triangle
C18_Xs == {last.p[1], last.p[3], last.p[5]}

C18_Ys == {last.p[2], last.p[4], last.p[6]}

\* the cells (x, y) occupied on the canvas that lie outside the bounding box
C18_Outside ==
    {c \in (0..(width - 1)) \X (0..(height - 1)) :
        /\ pixels[Index(Canvas, c[1], c[2])] # None
        /\ \/ \A x \in C18_Xs : c[1] < x
           \/ \A x \in C18_Xs : c[1] > x
           \/ \A y \in C18_Ys : c[2] < y
           \/ \A y \in C18_Ys : c[2] > y}

\* C18: after a fill_triangle on an empty canvas that did not panic, every
\* occupied cell lies in the bounding box of the three vertices; so a triangle
\* whose vertices all have negative x leaves the canvas empty.
C18_InBoundingBox ==
    (last.op = "fill_triangle" /\ ~fault) => C18_Outside = {}

(***************************************************************************)
(* C19: between two clears the buffers only gain                           *)
(***************************************************************************)
\* every empty cell holds the sentinel depth, and both buffers have
\* width * height cells
C19_Shape ==
    /\ DOMAIN pixels = 0..(width * height - 1)
    /\ DOMAIN depth_buffer = 0..(width * height - 1)
    /\ \A i \in DOMAIN pixels : pixels[i] = None => depth_buffer[i] = F32_MIN

\* a step that is not a clear lowers no depth and empties no cell
C19_Gains ==
    last'.op # "clear" =>
        /\ width' = width /\ height' = height
        /\ \A i \in DOMAIN pixels :
              /\ depth_buffer'[i] >= depth_buffer[i]
              /\ pixels[i] # None => pixels'[i] # None

\* C19: after any sequence of set, draw_line, fill_triangle and draw_entity calls
\* since the last clear, every empty cell holds the sentinel and both buffers
\* have width * height cells; and each such call leaves every depth at least as
\* large as before and every occupied cell occupied.
C19_BuffersOnlyGain == [](C19_Shape) /\ [][C19_Gains]_vars

\* a draw_line ran over occupied cells whose depth is above the line's depth
C19_Witness ==
    /\ last.op = "draw_line"
    /\ last.depth = 0
    /\ ops = 2
    /\ \E i \in DOMAIN pixels : pixels[i] # None /\ depth_buffer[i] = MaxDepth
    /\ \E i \in DOMAIN pixels : pixels[i] # None /\ depth_buffer[i] = 0

(***************************************************************************)
(* C20: the block colour fits in a u8                                      *)
(***************************************************************************)
\* the shares the occupied sub-cells of the first block add to cel_color
C20_Shares == {ColorMul(pixels[i], EIGHTH) : i \in Occupied(Canvas)}

\* channel k of the block colour in unbounded arithmetic, where n sub-cells of
\* each colour c are occupied
C20_Sum(k) ==
    LET Count(c) == Cardinality({i \in Occupied(Canvas) : pixels[i] = c})
        RECURSIVE SumOver(_)
        SumOver(S) ==
            IF S = {} THEN 0
            ELSE LET c == CHOOSE c \in S : TRUE
                 IN  Count(c) * ColorMul(c, EIGHTH)[k] + SumOver(S \ {c})
    IN  SumOver(BlockColors \ {None})

\* C20: every occupied sub-cell contributes at most 31 per channel, the block
\* colour stays at most 255 on each channel, and to_s does not overflow; the
\* colour it emits is the sum of the shares.
C20_NoOverflow ==
    /\ \A c \in C20_Shares : \A k \in 1..3 : c[k] <= 31
    /\ \A k \in 1..3 : C20_Sum(k) <= 255
    /\ ~fault
    /\ (last.op = "to_s" /\ Occupied(Canvas) # {}) =>
          out[3] = <<"fg", C20_Sum(1), C20_Sum(2), C20_Sum(3)>>

\* to_s has composited a block of eight white sub-cells into (248, 248, 248)
C20_Witness ==
    /\ last.op = "to_s"
    /\ Cardinality(Occupied(Canvas)) = 8
    /\ out[3] = <<"fg", 248, 248, 248>>

====
